---- MODULE Spec2Model ----
(***************************************************************************)
(* Model of the useBLE connection hook: the notification decoder          *)
(* (onNotify), the connect / disconnect session logic with the closures   *)
(* React memoises, and the startScan / stopScan lifecycle.                 *)
(***************************************************************************)
EXTENDS Integers, Sequences, FiniteSets, TLC

(***************************************************************************)
(* Bounds of the model.                                                    *)
(***************************************************************************)
MaxEvents == 2      \* characteristicvaluechanged events dispatched in a run
MaxCalls == 2       \* connect() invocations in a run
MaxScans == 3       \* startScan() invocations in a run
MaxPageOps == 2     \* uses of the page's pause, IMU, settings, clear controls

(***************************************************************************)
(* Program constants.                                                      *)
(***************************************************************************)
GROUP == 14
TARGET_SERVICE_UUID == "6e400001-b5a3-f393-e0a9-e50e24dcca9e"
TARGET_CHAR_NOTIFY_UUID == "6e400003-b5a3-f393-e0a9-e50e24dcca9e"

(***************************************************************************)
(* Optional values (null | x) and JavaScript numbers (NaN | integer).      *)
(***************************************************************************)
None == <<>>
Some(x) == <<x>>
NaN == <<>>
Num(n) == <<n>>
IsNaN(v) == v = NaN

(***************************************************************************)
(* Characters and bytes.  A DataView is a sequence of bytes; TextDecoder   *)
(* turns it into a sequence of characters.                                 *)
(***************************************************************************)
DigitChars == <<"0", "1", "2", "3", "4", "5", "6", "7", "8", "9">>
HexChars == <<"0", "1", "2", "3", "4", "5", "6", "7", "8", "9", "a", "b", "c", "d", "e", "f">>
WhiteSpace == {" ", "\n"}
ReplacementChar == "?"

IsDigit(c) == \E d \in 1..10 : DigitChars[d] = c
DigitVal(c) == (CHOOSE d \in 1..10 : DigitChars[d] = c) - 1

\* The code units the model's payloads are written in (ASCII).
CharCode(c) ==
  CASE c = "\n" -> 10
    [] c = " " -> 32
    [] c = "+" -> 43
    [] c = "," -> 44
    [] c = "-" -> 45
    [] c = "x" -> 120
    [] IsDigit(c) -> 48 + DigitVal(c)

CharOfByte(b) ==
  CASE b = 10 -> "\n"
    [] b = 32 -> " "
    [] b = 43 -> "+"
    [] b = 44 -> ","
    [] b = 45 -> "-"
    [] b = 120 -> "x"
    [] b >= 48 /\ b <= 57 -> DigitChars[b - 47]
    [] OTHER -> ReplacementChar

\* new TextDecoder().decode(bytes)
TextDecode(bytes) == [k \in 1..Len(bytes) |-> CharOfByte(bytes[k])]

\* String.prototype.trim
Trim(s) ==
  LET black == {k \in 1..Len(s) : s[k] \notin WhiteSpace}
  IN IF black = {} THEN <<>>
     ELSE SubSeq(s, CHOOSE k \in black : \A j \in black : k <= j,
                    CHOOSE k \in black : \A j \in black : j <= k)

\* String.prototype.split(","): the pieces between the commas, empty pieces
\* included; the empty string splits into one empty piece.
RECURSIVE Split(_)
Split(s) ==
  LET commas == {k \in 1..Len(s) : s[k] = ","}
      first == CHOOSE k \in commas : \A j \in commas : k <= j
  IN IF commas = {} THEN <<s>>
     ELSE <<SubSeq(s, 1, first - 1)>> \o Split(SubSeq(s, first + 1, Len(s)))

\* Leading white space, which parseFloat skips.
RECURSIVE TrimLeft(_)
TrimLeft(s) ==
  IF s # <<>> /\ Head(s) \in WhiteSpace THEN TrimLeft(Tail(s)) ELSE s

\* parseFloat on the model's alphabet: leading white space is skipped, then
\* an optional sign, then the longest run of digits; anything after it is
\* ignored, and no digit at all gives NaN.
RECURSIVE DigitRun(_, _)
DigitRun(s, acc) ==
  IF s # <<>> /\ IsDigit(Head(s))
  THEN DigitRun(Tail(s), Append(acc, DigitVal(Head(s)))) ELSE acc

RECURSIVE DigitsValue(_, _)
DigitsValue(ds, acc) ==
  IF ds = <<>> THEN acc ELSE DigitsValue(Tail(ds), 10 * acc + Head(ds))

parseFloat(tok) ==
  LET t == TrimLeft(tok)
      neg == t # <<>> /\ Head(t) = "-"
      signed == t # <<>> /\ Head(t) \in {"-", "+"}
      body == IF signed THEN Tail(t) ELSE t
      ds == DigitRun(body, <<>>)
  IN IF ds = <<>> THEN NaN
     ELSE Num(IF neg THEN 0 - DigitsValue(ds, 0) ELSE DigitsValue(ds, 0))

\* text.trim().split(",").map((v) => parseFloat(v))
ParseValues(bytes) ==
  LET toks == Split(Trim(TextDecode(bytes)))
  IN [k \in 1..Len(toks) |-> parseFloat(toks[k])]

\* bytes.map((b) => b.toString(16).padStart(2, "0")).join(" ")
HexOf(bytes) ==
  [k \in 1..(IF bytes = <<>> THEN 0 ELSE 3 * Len(bytes) - 1) |->
     LET b == bytes[((k - 1) \div 3) + 1]
     IN CASE k % 3 = 1 -> HexChars[(b \div 16) + 1]
          [] k % 3 = 2 -> HexChars[(b % 16) + 1]
          [] OTHER -> " "]

(***************************************************************************)
(* The decoder of onNotify.  values[i] of the code is At(values, i).       *)
(***************************************************************************)
At(values, i) == values[i + 1]

MakeSample(values, i) ==
  [imuId |-> At(values, i),
   accel |-> [x |-> At(values, i + 1), y |-> At(values, i + 2), z |-> At(values, i + 3)],
   gyro |-> [x |-> At(values, i + 4), y |-> At(values, i + 5), z |-> At(values, i + 6)],
   mag |-> [x |-> At(values, i + 7), y |-> At(values, i + 8), z |-> At(values, i + 9)],
   quat |-> [x |-> At(values, i + 10), y |-> At(values, i + 11),
             z |-> At(values, i + 12), w |-> At(values, i + 13)]]

\* for (let i = 0; i + GROUP - 1 < values.length; i += GROUP) { ... }
RECURSIVE DecodeFrom(_, _, _)
DecodeFrom(values, i, samples) ==
  IF i + GROUP - 1 < Len(values)
  THEN IF IsNaN(At(values, i))
       THEN DecodeFrom(values, i + GROUP, samples)
       ELSE DecodeFrom(values, i + GROUP, Append(samples, MakeSample(values, i)))
  ELSE samples

\* Variant: a group whose id is NaN advances the index by one value.
RECURSIVE DecodeFromShifting(_, _, _)
DecodeFromShifting(values, i, samples) ==
  IF i + GROUP - 1 < Len(values)
  THEN IF IsNaN(At(values, i))
       THEN DecodeFromShifting(values, i + 1, samples)
       ELSE DecodeFromShifting(values, i + GROUP,
                               Append(samples, MakeSample(values, i)))
  ELSE samples

DecodeSamplesShifting(values) == DecodeFromShifting(values, 0, <<>>)

\* Variant: the loop runs while i < values.length, so that a trailing partial
\* group is decoded too, its missing values read as undefined (NaN here).
AtOrUndefined(values, i) == IF i + 1 <= Len(values) THEN values[i + 1] ELSE NaN

RECURSIVE DecodeFromPartial(_, _, _)
DecodeFromPartial(values, i, samples) ==
  IF i < Len(values)
  THEN IF IsNaN(At(values, i))
       THEN DecodeFromPartial(values, i + GROUP, samples)
       ELSE DecodeFromPartial(values, i + GROUP,
              Append(samples,
                MakeSample([k \in 1..(i + GROUP) |-> AtOrUndefined(values, k - 1)], i)))
  ELSE samples

DecodeSamplesPartial(values) == DecodeFromPartial(values, 0, <<>>)

DecodeSamples(values) == DecodeFrom(values, 0, <<>>)

\* The property key a sample is stored under: next[s.imuId].
KeyOf(s) == s.imuId[1]

\* Variant: an id that already has an entry keeps it.
RECURSIVE MergeSamplesKeepFirst(_, _)
MergeSamplesKeepFirst(prev, samples) ==
  IF samples = <<>> THEN prev
  ELSE LET s == Head(samples)
           next == [k \in (DOMAIN prev) \cup {KeyOf(s)} |->
                      IF k \in DOMAIN prev THEN prev[k] ELSE s]
       IN MergeSamplesKeepFirst(next, Tail(samples))

\* const next = { ...prev }; for (const s of samples) next[s.imuId] = s;
RECURSIVE MergeSamples(_, _)
MergeSamples(prev, samples) ==
  IF samples = <<>> THEN prev
  ELSE LET s == Head(samples)
           next == [k \in (DOMAIN prev) \cup {KeyOf(s)} |->
                      IF k = KeyOf(s) THEN s ELSE prev[k]]
       IN MergeSamples(next, Tail(samples))

(***************************************************************************)
(* The browser's objects.  A BluetoothDevice either exposes a GATT server  *)
(* (device.gatt) or not.  A characteristic object belongs to one GATT     *)
(* connection of its device: the browser drops its attribute objects when  *)
(* the connection ends and hands out new ones after a reconnect.           *)
(***************************************************************************)
Devices == {"d1", "d2", "d3"}
GattDevices == {"d1", "d2"}
NullDevice == "null"
HasGatt(d) == d \in GattDevices
CharOf(d, epoch) == [dev |-> d, epoch |-> epoch]

VARIABLES
  \* React state of useBLE
  isScanning, scanError, connectMessage, connectedDevice, validUUIDFound,
  packetsReceived, lastPacketHex, latestIMUData, latestByIMU,
  \* refs of useBLE
  advHandlerRef, leScanRef, notifyCharRef,
  \* the render in which the current memoised connect / disconnect were
  \* created (they capture that render's onNotify and connectedDevice)
  renderId,
  mounted,
  \* browser: GATT connections, characteristic objects, listeners, scans
  gattConnected, gattEpoch, notifying, charListeners,
  scanSupported, scanReqs, scanStopped, advListeners,
  \* connect() invocations, each with its position and its BLE requests
  calls,
  \* the connect() invocation that returned in the last step and the event
  \* dispatched in the last step, if any
  lastReturn, lastEvent,
  \* history: the listener registered by the most recent connect() that
  \* returned true
  registered,
  \* history: the number of events dispatched, the events the hook handled
  \* since the most recent connect() call, and whether a stopScan() ran after
  \* the last startScan() call
  eventCount, received, scanQuiet,
  \* React state of the Index page that uses the hook
  isConnected, isPaused, selectedIMU, settings,
  bleAccelData, bleGyroData, bleMagData, bleQuatData,
  \* the record the chart effect appended in the last step, if any
  lastPush,
  \* history: the number of uses of the page's controls
  pageOps

hookVars == <<isScanning, scanError, connectMessage, connectedDevice,
              validUUIDFound, packetsReceived, lastPacketHex, latestIMUData,
              latestByIMU, advHandlerRef, leScanRef, notifyCharRef, renderId,
              mounted>>
dataVars == <<packetsReceived, lastPacketHex, latestIMUData, latestByIMU>>
scanVars == <<isScanning, scanError, advHandlerRef, leScanRef, scanSupported,
              scanReqs, scanStopped, advListeners, scanQuiet>>
sessionVars == <<connectMessage, connectedDevice, validUUIDFound, notifyCharRef,
                 renderId, gattConnected, gattEpoch, notifying, charListeners,
                 calls, registered>>
vars == <<isScanning, scanError, connectMessage, connectedDevice, validUUIDFound,
          packetsReceived, lastPacketHex, latestIMUData, latestByIMU,
          advHandlerRef, leScanRef, notifyCharRef, renderId, mounted,
          gattConnected, gattEpoch, notifying, charListeners,
          scanSupported, scanReqs, scanStopped, advListeners,
          calls, lastReturn, lastEvent, registered, eventCount, received,
          scanQuiet,
          isConnected, isPaused, selectedIMU, settings,
          bleAccelData, bleGyroData, bleMagData, bleQuatData, lastPush,
          pageOps>>

chartVars == <<bleAccelData, bleGyroData, bleMagData, bleQuatData>>
pageVars == <<isConnected, isPaused, selectedIMU, settings>>

\* Everything of the hook and the browser but the two one-step markers.
bleState == <<hookVars, gattConnected, gattEpoch, notifying, charListeners,
              scanSupported, scanReqs, scanStopped, advListeners, calls,
              registered, eventCount, received, scanQuiet>>

\* The step runs no code of the Index page.
PageIdle == UNCHANGED <<pageVars, chartVars, pageOps>> /\ lastPush' = None

\* The step is neither the return of a connect() invocation nor an event.
NoReturn == lastReturn' = None /\ lastEvent' = None

\* A state setter of an unmounted component changes nothing.
SetState(old, new) == IF mounted THEN new ELSE old

\* useCallback(..., [connectedDevice]) / useCallback(..., [disconnect]): the
\* memoised closures are recreated in the render that sees a new
\* connectedDevice.
Rerender(newDevice) ==
  IF mounted /\ newDevice # connectedDevice THEN renderId + 1 ELSE renderId

\* The Index page: selectedIMU is "imu0", the default settings, empty charts.
ImuPrefix == <<"i", "m", "u">>
DefaultSettings == [samplingRate |-> 100, chartDuration |-> 5]

PageInitWith(conn) ==
  /\ isConnected = conn
  /\ isPaused = FALSE
  /\ selectedIMU = ImuPrefix \o <<"0">>
  /\ settings = DefaultSettings
  /\ bleAccelData = <<>>
  /\ bleGyroData = <<>>
  /\ bleMagData = <<>>
  /\ bleQuatData = <<>>
  /\ lastPush = None
  /\ pageOps = 0

PageInit == PageInitWith(FALSE)

InitWith(supported) ==
  /\ PageInit
  /\ isScanning = FALSE
  /\ scanError = None
  /\ connectMessage = None
  /\ connectedDevice = NullDevice
  /\ validUUIDFound = FALSE
  /\ packetsReceived = 0
  /\ lastPacketHex = None
  /\ latestIMUData = None
  /\ latestByIMU = <<>>
  /\ advHandlerRef = None
  /\ leScanRef = None
  /\ notifyCharRef = None
  /\ renderId = 0
  /\ mounted = TRUE
  /\ gattConnected = {}
  /\ gattEpoch = [d \in GattDevices |-> 0]
  /\ notifying = {}
  /\ charListeners = {}
  /\ scanSupported = supported
  /\ scanReqs = <<>>
  /\ scanStopped = {}
  /\ advListeners = {}
  /\ calls = <<>>
  /\ lastReturn = None
  /\ lastEvent = None
  /\ registered = None
  /\ eventCount = 0
  /\ received = <<>>
  /\ scanQuiet = FALSE

Init == InitWith(TRUE)

(***************************************************************************)
(* The payloads the device sends in the model: comma-separated tokens,    *)
(* written as the bytes of their ASCII text.                              *)
(***************************************************************************)
RECURSIVE FormatNat(_)
FormatNat(n) ==
  IF n < 10 THEN <<DigitChars[n + 1]>>
  ELSE Append(FormatNat(n \div 10), DigitChars[(n % 10) + 1])

RECURSIVE JoinTokens(_)
JoinTokens(toks) ==
  IF toks = <<>> THEN <<>>
  ELSE IF Len(toks) = 1 THEN toks[1]
  ELSE toks[1] \o <<",">> \o JoinTokens(Tail(toks))

Encode(text) == [k \in 1..Len(text) |-> CharCode(text[k])]
Payload(toks) == Some(Encode(JoinTokens(toks)))

\* One record: the id token, then 13 fields numbered base+1 .. base+13.
Rec(idTok, base) == <<idTok>> \o [j \in 1..(GROUP - 1) |-> FormatNat(base + j)]

Rec0 == Rec(<<"0">>, 0)
Rec1 == Rec(<<"1">>, 20)
Rec0b == Rec(<<"0">>, 40)
RecNaN == Rec(<<"x">>, 60)
Rec7 == Rec(<<" ", "7", "x">>, 80)
RecNeg == [Rec(<<"-", "1">>, 100) EXCEPT ![3] = <<"x">>, ![GROUP] = <<>>]

NoValue == None

\* Events of the session model.
SessionInputs ==
  { NoValue,
    Payload(Rec0),
    Payload(Rec0 \o RecNaN \o Rec0b),
    Payload(Rec1 \o SubSeq(Rec0, 1, 5)) }

\* Events of the page model: one IMU, two IMUs with IMU 0 first, IMU 1
\* alone, two records of IMU 0.
IndexInputs ==
  { Payload(Rec0),
    Payload(Rec0 \o Rec1),
    Payload(Rec1 \o SubSeq(Rec0, 1, 5)),
    Payload(Rec0 \o RecNaN \o Rec0b) }

\* Events of the decoder model.
DecodeInputs ==
  SessionInputs \cup
  { Payload(<<>>),
    Payload(<<<<"\n">>>>),
    Payload(Rec1 \o <<<<"\n">>>>),
    Payload(Rec0 \o Rec1),
    Payload(RecNaN \o Rec1),
    Payload(RecNaN),
    Payload(SubSeq(Rec1, 1, 5)),
    Payload(SubSeq(Rec1, 6, GROUP)),
    Payload(SubSeq(Rec0b, 1, GROUP - 1)),
    Payload(Rec7 \o RecNeg),
    Payload(SubSeq(Rec0, 2, GROUP) \o Rec1) }

\* The payloads are a finite set: what onNotify computes from the bytes of
\* one (the parsed values, the decoded samples, the hex text) is tabulated.
PayloadBytes == {dv[1] : dv \in DecodeInputs \ {NoValue}}
ValuesOf == [bytes \in PayloadBytes |-> ParseValues(bytes)]
SamplesOf == [bytes \in PayloadBytes |-> DecodeSamples(ValuesOf[bytes])]
HexTextOf == [bytes \in PayloadBytes |-> HexOf(bytes)]

(***************************************************************************)
(* onNotify: one run of the handler on the value of the characteristic.    *)
(***************************************************************************)
DataState ==
  [latestIMUData |-> latestIMUData, latestByIMU |-> latestByIMU,
   lastPacketHex |-> lastPacketHex, packetsReceived |-> packetsReceived]

\* Variant: latestIMUData is the first decoded record instead of the last.
onNotifyFirstRecord(st, dv) ==
  IF dv = None THEN st
  ELSE LET samples == SamplesOf[dv[1]]
       IN [latestIMUData |-> IF Len(samples) > 0
                             THEN Some(samples[1])
                             ELSE st.latestIMUData,
           latestByIMU |-> IF Len(samples) > 0
                           THEN MergeSamples(st.latestByIMU, samples)
                           ELSE st.latestByIMU,
           lastPacketHex |-> Some(HexTextOf[dv[1]]),
           packetsReceived |-> st.packetsReceived + 1]

onNotify(st, dv) ==
  IF dv = None THEN st
  ELSE LET samples == SamplesOf[dv[1]]
       IN [latestIMUData |-> IF Len(samples) > 0
                             THEN Some(samples[Len(samples)])
                             ELSE st.latestIMUData,
           latestByIMU |-> IF Len(samples) > 0
                           THEN MergeSamples(st.latestByIMU, samples)
                           ELSE st.latestByIMU,
           lastPacketHex |-> Some(HexTextOf[dv[1]]),
           packetsReceived |-> st.packetsReceived + 1]

\* Every listener attached to the characteristic runs once per event.
RECURSIVE RunListeners(_, _, _)
RunListeners(st, dv, n) ==
  IF n = 0 THEN st ELSE RunListeners(onNotify(st, dv), dv, n - 1)

ListenersOn(ch) == {l \in charListeners : l.ch = ch}

\* The browser dispatches characteristicvaluechanged on a characteristic of
\* a live connection on which notifications were started.
NotifyHook(ch, dv) ==
  /\ eventCount < MaxEvents
  /\ ch \in notifying
  /\ LET ran == Cardinality(ListenersOn(ch))
         st == IF mounted THEN RunListeners(DataState, dv, ran) ELSE DataState
     IN /\ latestIMUData' = st.latestIMUData
        /\ latestByIMU' = st.latestByIMU
        /\ lastPacketHex' = st.lastPacketHex
        /\ packetsReceived' = st.packetsReceived
        /\ lastEvent' = Some([ch |-> ch, dv |-> dv, ran |-> ran,
                              samples |-> IF ran = 0 \/ dv = None THEN <<>>
                                          ELSE SamplesOf[dv[1]]])
        /\ received' = IF ran = 0 \/ ~mounted THEN received
                       ELSE Append(received, [dv |-> dv, ran |-> ran])
  /\ eventCount' = eventCount + 1
  /\ lastReturn' = None
  /\ UNCHANGED <<scanVars, sessionVars, mounted>>

\* The hook used on its own: no page reacts to the new state.
Notify(ch, dv) == NotifyHook(ch, dv) /\ PageIdle

(***************************************************************************)
(* disconnect, as the closure created in render fn with connectedDevice    *)
(* capDev.                                                                 *)
(***************************************************************************)
GattDisconnected(d) == gattConnected \ {d}

DisconnectBody(fn, capDev) ==
  /\ charListeners' = IF notifyCharRef = None THEN charListeners
                      ELSE charListeners \ {[ch |-> notifyCharRef[1], fn |-> fn]}
  /\ notifyCharRef' = None
  /\ gattConnected' = GattDisconnected(capDev)
  /\ notifying' = {c \in notifying : c.dev \in GattDisconnected(capDev)}
  /\ connectedDevice' = SetState(connectedDevice, NullDevice)
  /\ renderId' = Rerender(NullDevice)
  /\ validUUIDFound' = SetState(validUUIDFound, FALSE)
  /\ connectMessage' = SetState(connectMessage, Some("Disconnected"))
  /\ UNCHANGED gattEpoch

\* The user runs the disconnect of the current render.
Disconnect ==
  /\ mounted
  /\ DisconnectBody(renderId, connectedDevice)
  /\ NoReturn
  /\ UNCHANGED <<dataVars, scanVars, mounted, calls, registered, eventCount,
                 received>>
  /\ PageIdle

(***************************************************************************)
(* connect(device): an async function; each action is the code between    *)
(* two awaits.                                                             *)
(***************************************************************************)
Req(op, arg) == [op |-> op, arg |-> arg]

\* An invocation that has returned keeps nothing; what it was and what it
\* returned is recorded in lastReturn in the state it returns in.
Returned ==
  [device |-> NullDevice, fn |-> 0, capDev |-> NullDevice, pc |-> "done",
   ret |-> "done", epoch |-> 0, log |-> <<>>, solo |-> TRUE]

Return(i, c, ret, log) ==
  [call |-> i, device |-> c.device, fn |-> c.fn, capDev |-> c.capDev,
   epoch |-> c.epoch, ret |-> ret, log |-> log, solo |-> c.solo]
Pending(i) == i \in 1..Len(calls) /\ calls[i].ret = "pending"

\* The number of requests a call has made when it awaits the one named pc.
StepsDone(pc) ==
  CASE pc = "gatt.connect" -> 1
    [] pc = "getPrimaryService" -> 2
    [] pc = "getCharacteristic" -> 3
    [] pc = "startNotifications" -> 4

\* The user runs the connect of the current render; it runs up to the first
\* await, device.gatt?.connect().  solo records whether every earlier
\* invocation had returned when this one was made.
ConnectCall(d) ==
  /\ mounted
  /\ Len(calls) < MaxCalls
  /\ connectMessage' = Some("Connecting")
  /\ packetsReceived' = 0
  /\ lastPacketHex' = None
  /\ validUUIDFound' = FALSE
  /\ latestIMUData' = None
  /\ latestByIMU' = <<>>
  /\ calls' = Append(calls,
        [device |-> d, fn |-> renderId, capDev |-> connectedDevice,
         pc |-> "gatt.connect", ret |-> "pending", epoch |-> 0,
         log |-> IF HasGatt(d) THEN <<Req("gatt.connect", d)>> ELSE <<>>,
         solo |-> \A j \in 1..Len(calls) : ~Pending(j)])
  /\ received' = <<>>
  /\ UNCHANGED <<scanVars, connectedDevice, notifyCharRef, renderId, mounted,
                 gattConnected, gattEpoch, notifying, charListeners, registered,
                 eventCount>>
  /\ NoReturn
  /\ PageIdle

\* device.gatt is undefined: server is undefined.
ConnectNoServer(i) ==
  /\ Pending(i)
  /\ calls[i].pc = "gatt.connect"
  /\ ~HasGatt(calls[i].device)
  /\ connectMessage' = SetState(connectMessage, Some("Failed to connect"))
  /\ calls' = [calls EXCEPT ![i] = Returned]
  /\ lastReturn' = Some(Return(i, calls[i], "false", calls[i].log))
  /\ lastEvent' = None
  /\ UNCHANGED <<dataVars, scanVars, connectedDevice, validUUIDFound,
                 notifyCharRef, renderId, mounted, gattConnected, gattEpoch,
                 notifying, charListeners, registered, eventCount, received>>
  /\ PageIdle

\* device.gatt.connect() resolves; setConnectedDevice(device) and
\* server.getPrimaryService(TARGET_SERVICE_UUID).
GattConnectResolve(i) ==
  /\ Pending(i)
  /\ calls[i].pc = "gatt.connect"
  /\ HasGatt(calls[i].device)
  /\ LET d == calls[i].device
     IN /\ gattConnected' = gattConnected \cup {d}
        /\ gattEpoch' = IF d \in gattConnected THEN gattEpoch
                        ELSE [gattEpoch EXCEPT ![d] = @ + 1]
        /\ connectedDevice' = SetState(connectedDevice, d)
        /\ renderId' = Rerender(d)
  /\ calls' = [calls EXCEPT
        ![i].pc = "getPrimaryService",
        ![i].log = Append(@, Req("getPrimaryService", TARGET_SERVICE_UUID))]
  /\ UNCHANGED <<dataVars, scanVars, connectMessage, validUUIDFound,
                 notifyCharRef, mounted, notifying, charListeners, registered,
                 eventCount, received>>
  /\ NoReturn
  /\ PageIdle

\* The device is connected and the objects the call holds belong to the
\* current connection.
Live(i) ==
  /\ calls[i].device \in gattConnected
  /\ (calls[i].pc = "getPrimaryService"
      \/ calls[i].epoch = gattEpoch[calls[i].device])

\* getPrimaryService resolves; service.getCharacteristic(TARGET_CHAR_NOTIFY_UUID).
GetPrimaryServiceResolve(i) ==
  /\ Pending(i)
  /\ calls[i].pc = "getPrimaryService"
  /\ Live(i)
  /\ calls' = [calls EXCEPT
        ![i].pc = "getCharacteristic",
        ![i].epoch = gattEpoch[calls[i].device],
        ![i].log = Append(@, Req("getCharacteristic", TARGET_CHAR_NOTIFY_UUID))]
  /\ NoReturn
  /\ UNCHANGED <<hookVars, scanVars, gattConnected, gattEpoch, notifying,
                 charListeners, registered, eventCount, received>>
  /\ PageIdle

\* Variant: the listener is added and connect returns true as soon as the
\* characteristic is found, without startNotifications().
GetCharacteristicResolveNoStart(i) ==
  /\ Pending(i)
  /\ calls[i].pc = "getCharacteristic"
  /\ Live(i)
  /\ LET ch == CharOf(calls[i].device, calls[i].epoch)
     IN /\ charListeners' = charListeners \cup {[ch |-> ch, fn |-> calls[i].fn]}
        /\ notifyCharRef' = Some(ch)
        /\ registered' = Some([ch |-> ch, fn |-> calls[i].fn])
  /\ validUUIDFound' = SetState(validUUIDFound, TRUE)
  /\ connectMessage' = SetState(connectMessage, Some("Receiving notifications"))
  /\ calls' = [calls EXCEPT ![i] = Returned]
  /\ lastReturn' = Some(Return(i, calls[i], "true", calls[i].log))
  /\ lastEvent' = None
  /\ UNCHANGED <<dataVars, scanVars, connectedDevice, renderId, mounted,
                 gattConnected, gattEpoch, notifying, eventCount, received>>
  /\ PageIdle

\* getCharacteristic resolves; notifyChar.startNotifications().
GetCharacteristicResolve(i) ==
  /\ Pending(i)
  /\ calls[i].pc = "getCharacteristic"
  /\ Live(i)
  /\ calls' = [calls EXCEPT
        ![i].pc = "startNotifications",
        ![i].log = Append(@, Req("startNotifications", TARGET_CHAR_NOTIFY_UUID))]
  /\ NoReturn
  /\ UNCHANGED <<hookVars, scanVars, gattConnected, gattEpoch, notifying,
                 charListeners, registered, eventCount, received>>
  /\ PageIdle

\* startNotifications resolves; the listener is added and connect returns
\* true.
StartNotificationsHook(i) ==
  /\ Pending(i)
  /\ calls[i].pc = "startNotifications"
  /\ Live(i)
  /\ LET ch == CharOf(calls[i].device, calls[i].epoch)
     IN /\ notifying' = notifying \cup {ch}
        /\ charListeners' = charListeners \cup {[ch |-> ch, fn |-> calls[i].fn]}
        /\ notifyCharRef' = Some(ch)
        /\ registered' = Some([ch |-> ch, fn |-> calls[i].fn])
  /\ validUUIDFound' = SetState(validUUIDFound, TRUE)
  /\ connectMessage' = SetState(connectMessage, Some("Receiving notifications"))
  /\ calls' = [calls EXCEPT ![i] = Returned]
  /\ lastReturn' = Some(Return(i, calls[i], "true", calls[i].log))
  /\ lastEvent' = None
  /\ UNCHANGED <<dataVars, scanVars, connectedDevice, renderId, mounted,
                 gattConnected, gattEpoch, eventCount, received>>

\* The hook used on its own: the caller does nothing with the result.
StartNotificationsResolve(i) == StartNotificationsHook(i) /\ PageIdle

\* Variant: a rejected request is made once more before giving up.
ConnectCatchRetry(i) ==
  /\ Pending(i)
  /\ calls[i].pc = "gatt.connect" => HasGatt(calls[i].device)
  /\ IF Len(calls[i].log) = StepsDone(calls[i].pc)
     THEN /\ calls' = [calls EXCEPT ![i].log = Append(@, @[Len(@)])]
          /\ NoReturn
          /\ UNCHANGED <<hookVars, gattConnected, gattEpoch, notifying,
                         charListeners>>
     ELSE /\ DisconnectBody(calls[i].fn, calls[i].capDev)
          /\ calls' = [calls EXCEPT ![i] = Returned]
          /\ lastReturn' = Some(Return(i, calls[i], "false", calls[i].log))
          /\ lastEvent' = None
          /\ UNCHANGED <<advHandlerRef, leScanRef, isScanning, scanError,
                         mounted, packetsReceived, lastPacketHex, latestIMUData,
                         latestByIMU>>
  /\ UNCHANGED <<scanSupported, scanReqs, scanStopped, advListeners, scanQuiet,
                 registered, eventCount, received>>
  /\ PageIdle

\* One of the awaited requests rejects: catch, disconnect(), return false.
ConnectCatch(i) ==
  /\ Pending(i)
  /\ calls[i].pc = "gatt.connect" => HasGatt(calls[i].device)
  /\ DisconnectBody(calls[i].fn, calls[i].capDev)
  /\ calls' = [calls EXCEPT ![i] = Returned]
  /\ lastReturn' = Some(Return(i, calls[i], "false",
        IF HasGatt(calls[i].capDev)
        THEN Append(calls[i].log, Req("gatt.disconnect", calls[i].capDev))
        ELSE calls[i].log))
  /\ lastEvent' = None
  /\ UNCHANGED <<dataVars, scanVars, mounted, registered, eventCount,
                 received>>
  /\ PageIdle

(***************************************************************************)
(* startScan / stopScan and the unmount effect.                            *)
(***************************************************************************)
StartScan ==
  /\ mounted
  /\ Len(scanReqs) < MaxScans
  /\ IF scanSupported
     THEN /\ scanError' = None
          /\ scanReqs' = Append(scanReqs, "pending")
     ELSE /\ scanError' = Some("BLE scanning not supported.")
          /\ scanReqs' = Append(scanReqs, "unsupported")
  /\ scanQuiet' = FALSE
  /\ UNCHANGED <<isScanning, advHandlerRef, leScanRef, scanSupported,
                 scanStopped, advListeners, dataVars, sessionVars, mounted,
                 eventCount, received>>
  /\ NoReturn
  /\ PageIdle

\* requestLEScan resolves with scan object i; onAdv of this call is handler i.
ScanResolve(i) ==
  /\ i \in 1..Len(scanReqs)
  /\ scanReqs[i] = "pending"
  /\ scanReqs' = [scanReqs EXCEPT ![i] = "scanning"]
  /\ leScanRef' = Some(i)
  /\ isScanning' = SetState(isScanning, TRUE)
  /\ advHandlerRef' = Some(i)
  /\ advListeners' = advListeners \cup {i}
  /\ NoReturn
  /\ UNCHANGED <<scanError, scanSupported, scanStopped, scanQuiet, dataVars,
                 sessionVars, mounted, eventCount, received>>
  /\ PageIdle

ScanReject(i) ==
  /\ i \in 1..Len(scanReqs)
  /\ scanReqs[i] = "pending"
  /\ scanReqs' = [scanReqs EXCEPT ![i] = "rejected"]
  /\ scanError' = SetState(scanError, Some("requestLEScan failed"))
  /\ UNCHANGED <<isScanning, advHandlerRef, leScanRef, scanSupported,
                 scanStopped, advListeners, scanQuiet, dataVars, sessionVars,
                 mounted, eventCount, received>>
  /\ NoReturn
  /\ PageIdle

StopScanBody ==
  /\ advListeners' = IF advHandlerRef = None THEN advListeners
                     ELSE advListeners \ {advHandlerRef[1]}
  /\ advHandlerRef' = None
  /\ scanStopped' = IF leScanRef = None THEN scanStopped
                    ELSE scanStopped \cup {leScanRef[1]}
  /\ isScanning' = FALSE
  /\ scanQuiet' = TRUE
  /\ UNCHANGED <<scanError, leScanRef, scanSupported, scanReqs>>

StopScan ==
  /\ mounted
  /\ StopScanBody
  /\ NoReturn
  /\ UNCHANGED <<dataVars, sessionVars, mounted, eventCount, received>>
  /\ PageIdle

\* useEffect(() => () => stopScan(), [stopScan]) is the hook's only cleanup.
Unmount ==
  /\ mounted
  /\ mounted' = FALSE
  /\ StopScanBody
  /\ NoReturn
  /\ UNCHANGED <<dataVars, sessionVars, eventCount, received>>
  /\ PageIdle

(***************************************************************************)
(* The Index page.  It owns the hook, passes it to BLEConnectionDialog and *)
(* keeps four chart buffers that an effect fills from the hook's state.    *)
(* Two versions of the page exist: "perIMU" charts from                    *)
(* latestByIMU[selectedImuId], "latest" charts from latestIMUData.         *)
(***************************************************************************)
Pages == {"perIMU", "latest"}

\* The choices of the header's IMU selector and of the settings dialog.
ImuOptions == {ImuPrefix \o <<"0">>, ImuPrefix \o <<"1">>}
SettingsOptions == {DefaultSettings, [samplingRate |-> 1, chartDuration |-> 1]}

\* parseInt(s, 10) on the model's alphabet (no fraction, no exponent).
parseInt(s) == parseFloat(s)

\* s.replace("imu", ""): the first occurrence is removed.
ReplaceImu(s) ==
  LET at == {k \in 1..(Len(s) - 2) : SubSeq(s, k, k + 2) = ImuPrefix}
  IN IF at = {} THEN s
     ELSE LET k == CHOOSE k \in at : \A m \in at : k <= m
          IN SubSeq(s, 1, k - 1) \o SubSeq(s, k + 3, Len(s))

\* parseInt(selectedIMU.replace("imu", ""), 10) || 0
SelectedImuId(name) ==
  LET v == parseInt(ReplaceImu(name))
  IN IF IsNaN(v) \/ v[1] = 0 THEN 0 ELSE v[1]

\* `imu${imu.imuId}`
ToText(n) == IF n < 0 THEN <<"-">> \o FormatNat(0 - n) ELSE FormatNat(n)
ImuKey(id) == ImuPrefix \o ToText(id)

MaxPoints(sett) == sett.samplingRate * sett.chartDuration

\* a.slice(-n): the last n elements; slice(-0) is the whole array.
Slice(a, n) ==
  IF n = 0 \/ Len(a) <= n THEN a ELSE SubSeq(a, Len(a) - n + 1, Len(a))

\* [...prev, { time, ...v }].slice(-maxPoints); the time stamp is left out.
Push(prev, v, sett) == Slice(Append(prev, v), MaxPoints(sett))

Charts ==
  [accel |-> bleAccelData, gyro |-> bleGyroData, mag |-> bleMagData,
   quat |-> bleQuatData, pushed |-> None]
Cleared ==
  [accel |-> <<>>, gyro |-> <<>>, mag |-> <<>>, quat |-> <<>>, pushed |-> None]

PushSample(c, imu, sett) ==
  [accel |-> Push(c.accel, imu.accel, sett),
   gyro |-> Push(c.gyro, imu.gyro, sett),
   mag |-> Push(c.mag, imu.mag, sett),
   quat |-> Push(c.quat, imu.quat, sett),
   pushed |-> Some(imu)]

\* Variant: the effect charts the most recent record whatever its id.
ChartEffectAnyIMU(page, c, byIMU, latest, name, conn, paused, sett) ==
  IF latest = None \/ ~conn \/ paused THEN c
  ELSE PushSample(c, latest[1], sett)

\* Variant: the effect ignores isPaused.
ChartEffectNoPause(page, c, byIMU, latest, name, conn, paused, sett) ==
  IF page = "perIMU"
  THEN IF SelectedImuId(name) \notin DOMAIN byIMU \/ ~conn THEN c
       ELSE PushSample(c, byIMU[SelectedImuId(name)], sett)
  ELSE IF latest = None \/ ~conn THEN c
       ELSE IF ImuKey(KeyOf(latest[1])) # name THEN c
       ELSE PushSample(c, latest[1], sett)

\* The chart effect, run on the state of the render: c are the buffers the
\* handler left, the other arguments the values the render sees.
ChartEffect(page, c, byIMU, latest, name, conn, paused, sett) ==
  IF page = "perIMU"
  THEN IF SelectedImuId(name) \notin DOMAIN byIMU \/ ~conn \/ paused THEN c
       ELSE PushSample(c, byIMU[SelectedImuId(name)], sett)
  ELSE IF latest = None \/ ~conn \/ paused THEN c
       ELSE IF ImuKey(KeyOf(latest[1])) # name THEN c
       ELSE PushSample(c, latest[1], sett)

SetCharts(c) ==
  /\ bleAccelData' = c.accel
  /\ bleGyroData' = c.gyro
  /\ bleMagData' = c.mag
  /\ bleQuatData' = c.quat
  /\ lastPush' = c.pushed

\* The user uses one of the page's controls.
PageOp == pageOps < MaxPageOps /\ pageOps' = pageOps + 1

\* A notification: onNotify, then the effect if the render sees a new
\* latestByIMU / latestIMUData (both are set when a record was decoded).
IndexNotify(page, ch, dv) ==
  /\ NotifyHook(ch, dv)
  /\ UNCHANGED <<pageVars, pageOps>>
  /\ LET decoded == /\ mounted
                    /\ ListenersOn(ch) # {}
                    /\ dv # NoValue
                    /\ SamplesOf[dv[1]] # <<>>
     IN SetCharts(IF decoded
                  THEN ChartEffect(page, Charts, latestByIMU', latestIMUData',
                                   selectedIMU, isConnected, isPaused, settings)
                  ELSE Charts)

\* handleChoose / handleConnectFromList: connect(d).  The page model follows
\* one invocation at a time; overlapping invocations are explored by the
\* models of the hook alone.
DialogConnect(d) ==
  /\ \A j \in 1..Len(calls) : ~Pending(j)
  /\ ConnectCall(d)

\* handleChoose / handleConnectFromList: connect(d) returned true, so
\* onConnect = handleBLEConnect runs; the effect follows if isConnected
\* changed.
DialogConnected(page, i) ==
  /\ StartNotificationsHook(i)
  /\ isConnected' = SetState(isConnected, TRUE)
  /\ UNCHANGED <<isPaused, selectedIMU, settings, pageOps>>
  /\ SetCharts(IF ~mounted THEN Charts
               ELSE IF isConnected THEN Cleared
               ELSE ChartEffect(page, Cleared, latestByIMU, latestIMUData,
                                selectedIMU, TRUE, isPaused, settings))

\* The dialog's Disconnect button, shown while connectedDevice is set, runs
\* the hook's disconnect and nothing else.
DialogDisconnect ==
  /\ connectedDevice # NullDevice
  /\ Disconnect

\* The header's connection button while isConnected: handleDisconnect.
HandleDisconnect ==
  /\ mounted
  /\ isConnected
  /\ DisconnectBody(renderId, connectedDevice)
  /\ NoReturn
  /\ UNCHANGED <<dataVars, scanVars, mounted, calls, registered, eventCount,
                 received>>
  /\ isConnected' = FALSE
  /\ UNCHANGED <<isPaused, selectedIMU, settings, pageOps>>
  /\ SetCharts(Cleared)

\* onPause: setIsPaused((prev) => !prev); isPaused is a dependency of the
\* effect.
OnPause(page) ==
  /\ mounted
  /\ PageOp
  /\ isPaused' = ~isPaused
  /\ UNCHANGED <<isConnected, selectedIMU, settings>>
  /\ SetCharts(ChartEffect(page, Charts, latestByIMU, latestIMUData,
                           selectedIMU, isConnected, ~isPaused, settings))
  /\ NoReturn
  /\ UNCHANGED bleState

\* handleIMUChange: the buffers are emptied; the effect follows if the
\* selection changed.
HandleIMUChange(page, name) ==
  /\ mounted
  /\ PageOp
  /\ selectedIMU' = name
  /\ UNCHANGED <<isConnected, isPaused, settings>>
  /\ SetCharts(IF name = selectedIMU THEN Cleared
               ELSE ChartEffect(page, Cleared, latestByIMU, latestIMUData,
                                name, isConnected, isPaused, settings))
  /\ NoReturn
  /\ UNCHANGED bleState

\* onSettingsChange = setSettings: a new settings object, a dependency of
\* the effect.
SettingsChange(page, sett) ==
  /\ mounted
  /\ PageOp
  /\ settings' = sett
  /\ UNCHANGED <<isConnected, isPaused, selectedIMU>>
  /\ SetCharts(ChartEffect(page, Charts, latestByIMU, latestIMUData,
                           selectedIMU, isConnected, isPaused, sett))
  /\ NoReturn
  /\ UNCHANGED bleState

\* handleClear: the buffers are emptied; no dependency of the effect changes.
HandleClear ==
  /\ mounted
  /\ PageOp
  /\ UNCHANGED pageVars
  /\ SetCharts(Cleared)
  /\ NoReturn
  /\ UNCHANGED bleState

(***************************************************************************)
(* Specifications.                                                         *)
(***************************************************************************)
\* The session: connect, disconnect, notifications, unmount.
Next ==
  \/ \E d \in Devices : ConnectCall(d)
  \/ \E i \in 1..Len(calls) : ConnectNoServer(i)
  \/ \E i \in 1..Len(calls) : GattConnectResolve(i)
  \/ \E i \in 1..Len(calls) : GetPrimaryServiceResolve(i)
  \/ \E i \in 1..Len(calls) : GetCharacteristicResolve(i)
  \/ \E i \in 1..Len(calls) : StartNotificationsResolve(i)
  \/ \E i \in 1..Len(calls) : ConnectCatch(i)
  \/ Disconnect
  \/ \E ch \in notifying, dv \in SessionInputs : Notify(ch, dv)
  \/ Unmount

Spec == Init /\ [][Next]_vars

\* The session without notifications: the requests and results of connect.
ConnectNext ==
  \/ \E d \in Devices : ConnectCall(d)
  \/ \E i \in 1..Len(calls) : ConnectNoServer(i)
  \/ \E i \in 1..Len(calls) : GattConnectResolve(i)
  \/ \E i \in 1..Len(calls) : GetPrimaryServiceResolve(i)
  \/ \E i \in 1..Len(calls) : GetCharacteristicResolve(i)
  \/ \E i \in 1..Len(calls) : StartNotificationsResolve(i)
  \/ \E i \in 1..Len(calls) : ConnectCatch(i)
  \/ Disconnect
  \/ Unmount

SpecConnect == Init /\ [][ConnectNext]_vars

\* The page with its dialog: the dialog's connect handlers, the header's
\* buttons, the settings dialog and the notifications.
IndexNext(page) ==
  \/ \E d \in Devices : DialogConnect(d)
  \/ \E i \in 1..Len(calls) : ConnectNoServer(i)
  \/ \E i \in 1..Len(calls) : GattConnectResolve(i)
  \/ \E i \in 1..Len(calls) : GetPrimaryServiceResolve(i)
  \/ \E i \in 1..Len(calls) : GetCharacteristicResolve(i)
  \/ \E i \in 1..Len(calls) : DialogConnected(page, i)
  \/ \E i \in 1..Len(calls) : ConnectCatch(i)
  \/ DialogDisconnect
  \/ HandleDisconnect
  \/ \E ch \in notifying, dv \in IndexInputs : IndexNotify(page, ch, dv)
  \/ OnPause(page)
  \/ \E name \in ImuOptions : HandleIMUChange(page, name)
  \/ \E sett \in SettingsOptions : SettingsChange(page, sett)
  \/ HandleClear
  \/ Unmount

SpecIndex == Init /\ [][IndexNext("perIMU")]_vars

\* The scan lifecycle.
ScanInit == \E supported \in BOOLEAN : InitWith(supported)

ScanNext ==
  \/ StartScan
  \/ \E i \in 1..Len(scanReqs) : ScanResolve(i)
  \/ \E i \in 1..Len(scanReqs) : ScanReject(i)
  \/ StopScan
  \/ Unmount

SpecScan == ScanInit /\ [][ScanNext]_vars

\* The decoder: the hook holds a session with d1 (connect(d1) returned true
\* in render 0) and the device sends notifications.  DecodeInit is the state
\* Spec reaches by ConnectCall("d1") and the four requests resolving.
ConnectedCall ==
  [device |-> "d1", fn |-> 0, capDev |-> NullDevice, pc |-> "done",
   ret |-> "true", epoch |-> 1,
   log |-> <<Req("gatt.connect", "d1"),
             Req("getPrimaryService", TARGET_SERVICE_UUID),
             Req("getCharacteristic", TARGET_CHAR_NOTIFY_UUID),
             Req("startNotifications", TARGET_CHAR_NOTIFY_UUID)>>,
   solo |-> TRUE]

HookConnected ==
  /\ isScanning = FALSE
  /\ scanError = None
  /\ connectMessage = Some("Receiving notifications")
  /\ connectedDevice = "d1"
  /\ validUUIDFound = TRUE
  /\ packetsReceived = 0
  /\ lastPacketHex = None
  /\ latestIMUData = None
  /\ latestByIMU = <<>>
  /\ advHandlerRef = None
  /\ leScanRef = None
  /\ notifyCharRef = Some(CharOf("d1", 1))
  /\ renderId = 1
  /\ mounted = TRUE
  /\ gattConnected = {"d1"}
  /\ gattEpoch = [d \in GattDevices |-> IF d = "d1" THEN 1 ELSE 0]
  /\ notifying = {CharOf("d1", 1)}
  /\ charListeners = {[ch |-> CharOf("d1", 1), fn |-> 0]}
  /\ scanSupported = TRUE
  /\ scanReqs = <<>>
  /\ scanStopped = {}
  /\ advListeners = {}
  /\ calls = <<Returned>>
  /\ lastReturn = Some(Return(1, ConnectedCall, "true", ConnectedCall.log))
  /\ lastEvent = None
  /\ registered = Some([ch |-> CharOf("d1", 1), fn |-> 0])
  /\ eventCount = 0
  /\ received = <<>>
  /\ scanQuiet = FALSE

DecodeInit == PageInit /\ HookConnected

DecodeNext == \E ch \in notifying, dv \in DecodeInputs : Notify(ch, dv)

SpecDecode == DecodeInit /\ [][DecodeNext]_vars

\* The charts: the page with a session.  Either connect(d1) has just
\* returned true and handleBLEConnect has run, or (the state SpecIndex
\* reaches by connecting d1, then d2, then the header's disconnect) the page
\* is disconnected while d1 still notifies the listener of the first
\* connect.
HookStale ==
  /\ isScanning = FALSE
  /\ scanError = None
  /\ connectMessage = Some("Disconnected")
  /\ connectedDevice = NullDevice
  /\ validUUIDFound = FALSE
  /\ packetsReceived = 0
  /\ lastPacketHex = None
  /\ latestIMUData = None
  /\ latestByIMU = <<>>
  /\ advHandlerRef = None
  /\ leScanRef = None
  /\ notifyCharRef = None
  /\ renderId = 3
  /\ mounted = TRUE
  /\ gattConnected = {"d1"}
  /\ gattEpoch = [d \in GattDevices |-> 1]
  /\ notifying = {CharOf("d1", 1)}
  /\ charListeners = {[ch |-> CharOf("d1", 1), fn |-> 0],
                      [ch |-> CharOf("d2", 1), fn |-> 1]}
  /\ scanSupported = TRUE
  /\ scanReqs = <<>>
  /\ scanStopped = {}
  /\ advListeners = {}
  /\ calls = <<Returned, Returned>>
  /\ lastReturn = None
  /\ lastEvent = None
  /\ registered = Some([ch |-> CharOf("d2", 1), fn |-> 1])
  /\ eventCount = 0
  /\ received = <<>>
  /\ scanQuiet = FALSE

ChartsInit ==
  \/ PageInitWith(TRUE) /\ HookConnected
  \/ PageInitWith(FALSE) /\ HookStale

ChartsNext(page) ==
  \/ \E ch \in notifying, dv \in IndexInputs : IndexNotify(page, ch, dv)
  \/ OnPause(page)
  \/ \E name \in ImuOptions : HandleIMUChange(page, name)
  \/ \E sett \in SettingsOptions : SettingsChange(page, sett)
  \/ HandleClear
  \/ HandleDisconnect
  \/ DialogDisconnect
  \/ Unmount

SpecCharts == ChartsInit /\ [][ChartsNext("perIMU")]_vars

SpecChartsLatest == ChartsInit /\ [][ChartsNext("latest")]_vars

(***************************************************************************)
(* Properties of the decoder.                                              *)
(***************************************************************************)
\* Group k of a notification, field by field: value 0 is the id, 1-3 accel,
\* 4-6 gyro, 7-9 mag, 10-13 quat.
GroupRecord(values, k) ==
  LET v(j) == values[GROUP * k + j + 1]
  IN [imuId |-> v(0),
      accel |-> [x |-> v(1), y |-> v(2), z |-> v(3)],
      gyro |-> [x |-> v(4), y |-> v(5), z |-> v(6)],
      mag |-> [x |-> v(7), y |-> v(8), z |-> v(9)],
      quat |-> [x |-> v(10), y |-> v(11), z |-> v(12), w |-> v(13)]]

CompleteGroups(values) ==
  {k \in 0..Len(values) : GROUP * k + (GROUP - 1) < Len(values)}
KeptGroups(values) ==
  {k \in CompleteGroups(values) : ~IsNaN(values[GROUP * k + 1])}
NthSmallest(S, j) == CHOOSE k \in S : Cardinality({m \in S : m < k}) = j - 1

ExpectedRecords(values) ==
  [j \in 1..Cardinality(KeptGroups(values)) |->
     GroupRecord(values, NthSmallest(KeptGroups(values), j))]

\* An event with a value was dispatched in the last step and a listener ran.
Handled ==
  lastEvent # None /\ lastEvent[1].dv # NoValue /\ lastEvent[1].ran > 0
EventValues == ValuesOf[lastEvent[1].dv[1]]

\* C1: the samples onNotify decodes from a notification are the records of
\* its complete groups of 14 values whose id is a number, field by field,
\* in group order; a skipped group leaves the later groups aligned.
C1_GroupsDecoded ==
  Handled => lastEvent[1].samples = ExpectedRecords(EventValues)

\* C1 witness: a notification in which a group with a NaN id lies between
\* two groups that were decoded.
C1_Witness ==
  /\ Handled
  /\ Len(lastEvent[1].samples) >= 2
  /\ \E k0, k1, k2 \in CompleteGroups(EventValues) :
       /\ k0 < k1 /\ k1 < k2
       /\ IsNaN(EventValues[GROUP * k1 + 1])
       /\ {k0, k2} \subseteq KeptGroups(EventValues)

\* C2: every sample decoded in a step is a complete group of that step's
\* notification alone; a notification with fewer than 14 values decodes
\* nothing and leaves latestIMUData and latestByIMU unchanged; and every
\* record held after the step is an old one or a complete group of this
\* notification, never one put together from two notifications.
C2Step ==
  (lastEvent' # None /\ lastEvent'[1].dv # NoValue /\ lastEvent'[1].ran > 0) =>
    LET values == ValuesOf[lastEvent'[1].dv[1]]
        own == {GroupRecord(values, k) : k \in CompleteGroups(values)}
        samples == lastEvent'[1].samples
    IN /\ \A j \in 1..Len(samples) : samples[j] \in own
       /\ Len(values) < GROUP =>
            /\ samples = <<>>
            /\ UNCHANGED <<latestIMUData, latestByIMU>>
       /\ \/ latestIMUData' = latestIMUData
          \/ latestIMUData' # None /\ latestIMUData'[1] \in own
       /\ \A id \in DOMAIN latestByIMU' :
            \/ latestByIMU'[id] \in own
            \/ id \in DOMAIN latestByIMU /\ latestByIMU'[id] = latestByIMU[id]

C2_NoCarryOver == [][C2Step]_vars

\* C2 witness: two notifications in a row that carry the two parts of one
\* record of 14 values, after which no record is held.
C2_Witness ==
  /\ Len(received) >= 2
  /\ LET a == received[Len(received) - 1].dv
         b == received[Len(received)].dv
     IN /\ a # NoValue /\ b # NoValue
        /\ Len(ValuesOf[a[1]]) < GROUP
        /\ Len(ValuesOf[b[1]]) < GROUP
        /\ Len(ValuesOf[a[1]]) + Len(ValuesOf[b[1]]) = GROUP
        /\ ~IsNaN(ValuesOf[a[1]][1])
  /\ latestByIMU = <<>>
  /\ latestIMUData = None
  /\ packetsReceived >= 2

(***************************************************************************)
(* Properties of the per-IMU state.                                        *)
(***************************************************************************)
\* The samples decoded from the notifications handled since the most recent
\* connect() call, in the order they were decoded.
RECURSIVE SamplesIn(_)
SamplesIn(rcv) ==
  IF rcv = <<>> THEN <<>>
  ELSE (IF Head(rcv).dv = NoValue THEN <<>> ELSE SamplesOf[Head(rcv).dv[1]])
       \o SamplesIn(Tail(rcv))

DecodedSince == SamplesIn(received)
LastIndexOf(log, id) ==
  CHOOSE j \in 1..Len(log) :
    /\ KeyOf(log[j]) = id
    /\ \A m \in 1..Len(log) : KeyOf(log[m]) = id => m <= j

\* C3: latestByIMU has an entry exactly for the ids decoded since the most
\* recent connect() call, and the entry is the most recently decoded record
\* with that id.
C3_LatestPerIMU ==
  LET log == DecodedSince
      ids == {KeyOf(log[j]) : j \in 1..Len(log)}
  IN /\ DOMAIN latestByIMU = ids
     /\ \A id \in ids : latestByIMU[id] = log[LastIndexOf(log, id)]

\* C3 witness: after a second connect() call, two notifications were handled
\* that both carry records of one id, the later one two different ones; the
\* entry is the last group of the later notification, and another id has
\* none.
C3_Witness ==
  /\ Len(calls) >= 2
  /\ Len(received) = 2
  /\ LET log == DecodedSince
     IN /\ Len(log) >= 3
        /\ \A j \in 1..Len(log) : KeyOf(log[j]) = 0
        /\ log[Len(log)] # log[1]
        /\ log[Len(log)] # log[Len(log) - 1]
        /\ latestByIMU[0] = log[Len(log)]
  /\ 1 \notin DOMAIN latestByIMU

(***************************************************************************)
(* Properties of connect / disconnect.                                     *)
(***************************************************************************)
ReturnedWith(ret) == lastReturn # None /\ lastReturn[1].ret = ret
Requested(log, op) == \E j \in 1..Len(log) : log[j].op = op
\* The invocation that returns ran on a mounted component and overlapped no
\* other invocation (the properties of a return are stated for returns that
\* neither an unmount nor a concurrent connect() interferes with).
NoneInFlight ==
  /\ mounted
  /\ lastReturn # None
  /\ lastReturn[1].solo
  /\ lastReturn[1].call = Len(calls)

\* C4: when connect(device) returns false after device.gatt.connect() had
\* succeeded, the GATT connection of that device has been disconnected.
C4_FailedConnectDisconnectsDevice ==
  (/\ ReturnedWith("false")
   /\ Requested(lastReturn[1].log, "getPrimaryService")
   /\ NoneInFlight)
    => lastReturn[1].device \notin gattConnected

\* C5: a disconnect() that follows a connect() that returned true removes
\* the characteristicvaluechanged listener that connect registered.
C5_DisconnectRemovesListener ==
  [][(Disconnect /\ registered # None) => registered[1] \notin charListeners']_vars

\* C7: whenever connect(device) returns false the hook holds no session:
\* connectedDevice is null, validUUIDFound is false, notifyCharRef is null
\* and no listener registered by the hook is attached.
C7_FailedConnectLeavesNoSession ==
  (ReturnedWith("false") /\ NoneInFlight) =>
    /\ connectedDevice = NullDevice
    /\ validUUIDFound = FALSE
    /\ notifyCharRef = None
    /\ charListeners = {}

\* C8: when the hook unmounts while a device is connected and notifications
\* are running, the cleanup removes the listener and disconnects the
\* device's GATT connection.
C8_UnmountEndsSession ==
  [][(Unmount /\ connectedDevice # NullDevice /\ notifyCharRef # None)
       => /\ \A l \in charListeners' : l.ch # notifyCharRef[1]
          /\ connectedDevice \notin gattConnected']_vars

\* The requests of a connect(device) that succeeds, in order.
ConnectRequests(d) ==
  <<Req("gatt.connect", d),
    Req("getPrimaryService", TARGET_SERVICE_UUID),
    Req("getCharacteristic", TARGET_CHAR_NOTIFY_UUID),
    Req("startNotifications", TARGET_CHAR_NOTIFY_UUID)>>

IsPrefix(a, b) == Len(a) <= Len(b) /\ a = SubSeq(b, 1, Len(a))
\* C9: connect registers the listener, sets validUUIDFound and returns true
\* only after gatt.connect(), getPrimaryService(TARGET_SERVICE_UUID),
\* getCharacteristic(TARGET_CHAR_NOTIFY_UUID) and startNotifications() have
\* succeeded in this order; a suspended call has made exactly the requests
\* up to the one it awaits, each after the previous one succeeded, and no
\* request for another service or characteristic.
C9_ConnectSequence ==
  /\ \A i \in 1..Len(calls) :
       (Pending(i) /\ HasGatt(calls[i].device)) =>
         calls[i].log = SubSeq(ConnectRequests(calls[i].device), 1,
                               StepsDone(calls[i].pc))
  /\ ReturnedWith("true") =>
       /\ lastReturn[1].log = ConnectRequests(lastReturn[1].device)
       /\ registered = Some([ch |-> CharOf(lastReturn[1].device, lastReturn[1].epoch),
                             fn |-> lastReturn[1].fn])
       /\ registered[1] \in charListeners
  /\ (validUUIDFound \/ charListeners # {} \/ notifyCharRef # None) =>
       registered # None

\* C9 witness: a connect() has just returned true.
C9_Witness == ReturnedWith("true") /\ validUUIDFound

\* C10: one invocation of connect makes each of its four requests at most
\* once, and after one of them fails it makes no request other than the
\* cleanup disconnect.
OccurrencesOf(log, op) == Cardinality({j \in 1..Len(log) : log[j].op = op})
ConnectOps == {"gatt.connect", "getPrimaryService", "getCharacteristic",
               "startNotifications"}

C10_NoRetry ==
  /\ \A i \in 1..Len(calls) : \A op \in ConnectOps :
       Pending(i) => OccurrencesOf(calls[i].log, op) <= 1
  /\ lastReturn # None =>
       LET log == lastReturn[1].log
           made == {j \in 1..Len(log) : log[j].op \in ConnectOps}
       IN /\ \A op \in ConnectOps : OccurrencesOf(log, op) <= 1
          /\ \A j \in 1..Len(log) :
               j \notin made => /\ log[j].op = "gatt.disconnect"
                                /\ j = Len(log)
                                /\ lastReturn[1].ret = "false"
          /\ IsPrefix([j \in 1..Cardinality(made) |-> log[j]],
                      ConnectRequests(lastReturn[1].device))

\* C10 witness: a connect() has just returned false after its third request
\* failed, having made the cleanup disconnect.
C10_Witness ==
  /\ ReturnedWith("false")
  /\ Len(lastReturn[1].log) = 4
  /\ lastReturn[1].log[3].op = "getCharacteristic"
  /\ lastReturn[1].log[4].op = "gatt.disconnect"

(***************************************************************************)
(* Properties of the scan lifecycle.                                       *)
(***************************************************************************)
PendingScans == {i \in 1..Len(scanReqs) : scanReqs[i] = "pending"}
ScanObjects == {i \in 1..Len(scanReqs) : scanReqs[i] = "scanning"}

\* C6: once the last stopScan() or the unmount cleanup has run and no
\* requestLEScan is pending, no advertisementreceived listener is attached
\* and every scan object has been stopped.
C6_ScanCleanedUp ==
  (scanQuiet /\ PendingScans = {}) =>
    /\ advListeners = {}
    /\ ScanObjects \subseteq scanStopped

(***************************************************************************)
(* Properties of the Index page's charts.                                  *)
(***************************************************************************)
ChartsAfter(c) ==
  /\ bleAccelData' = c.accel
  /\ bleGyroData' = c.gyro
  /\ bleMagData' = c.mag
  /\ bleQuatData' = c.quat

\* C11: the chart buffers change only by being emptied or by one point
\* being appended to each, and an appended point is taken from a record
\* whose imuId is the selected IMU id at the time of the append.
C11Step ==
  (chartVars' # chartVars \/ lastPush' # None) =>
    \/ lastPush' = None /\ ChartsAfter(Cleared)
    \/ /\ lastPush' # None
       /\ KeyOf(lastPush'[1]) = SelectedImuId(selectedIMU')
       /\ \E base \in {Charts, Cleared} :
            ChartsAfter(PushSample(base, lastPush'[1], settings'))

C11_OnlySelectedIMU == [][C11Step]_vars

\* C11 witness: IMU 1 is selected, the hook holds records of IMU 0 and of
\* IMU 1, and a point was just appended.
C11_Witness ==
  /\ lastPush # None
  /\ SelectedImuId(selectedIMU) = 1
  /\ {0, 1} \subseteq DOMAIN latestByIMU
  /\ bleAccelData # <<>>
  /\ bleAccelData[Len(bleAccelData)] = latestByIMU[1].accel

Points(buf) == {buf[j] : j \in 1..Len(buf)}

\* A notification was handled in this step by a mounted, connected page
\* that is not paused.
LiveEventStep ==
  /\ lastEvent' # None
  /\ lastEvent'[1].ran > 0
  /\ mounted
  /\ isConnected
  /\ ~isPaused

\* C12: on the page that charts from latestIMUData, every record a
\* notification decodes for the selected IMU while the page is connected
\* and not paused is appended to the four chart buffers.
C12Step ==
  LiveEventStep =>
    LET samples == lastEvent'[1].samples
    IN \A j \in 1..Len(samples) :
         KeyOf(samples[j]) = SelectedImuId(selectedIMU) =>
           /\ samples[j].accel \in Points(bleAccelData')
           /\ samples[j].gyro \in Points(bleGyroData')
           /\ samples[j].mag \in Points(bleMagData')
           /\ samples[j].quat \in Points(bleQuatData')

C12_EveryRecordCharted == [][C12Step]_vars

\* The notification handled in this step carried a record of the selected
\* IMU.
CarriedSelected ==
  \E j \in 1..Len(lastEvent'[1].samples) :
    KeyOf(lastEvent'[1].samples[j]) = SelectedImuId(selectedIMU)

\* C13: while the page is connected and not paused, a notification appends
\* a point only if it carried a record of the selected IMU, and then one
\* point; a notification with records of other IMUs only leaves the four
\* buffers unchanged.
C13Step ==
  LiveEventStep =>
    IF CarriedSelected
    THEN /\ lastPush' # None
         /\ ChartsAfter(PushSample(Charts, lastPush'[1], settings))
    ELSE lastPush' = None /\ UNCHANGED chartVars

C13_PointOnlyForSelectedRecord == [][C13Step]_vars

\* C14: while the page is paused or not connected, no notification changes
\* the four chart buffers.
C14Step ==
  (lastEvent' # None /\ (isPaused \/ ~isConnected)) =>
    lastPush' = None /\ UNCHANGED chartVars

C14_SuspendedWhilePausedOrNotConnected == [][C14Step]_vars

\* C14 witness: the hook of a page that is not connected has just handled
\* a notification with a record of the selected IMU; the buffers are empty.
C14_Witness ==
  /\ lastEvent # None
  /\ lastEvent[1].ran > 0
  /\ ~isConnected
  /\ SelectedImuId(selectedIMU) \in DOMAIN latestByIMU
  /\ KeyOf(lastEvent[1].samples[Len(lastEvent[1].samples)]) =
       SelectedImuId(selectedIMU)
  /\ bleAccelData = <<>>

\* The paused case of C14 happens too: a connected, paused page has just
\* handled a notification with a record of the selected IMU.
C14_PausedReached ==
  /\ lastEvent # None
  /\ lastEvent[1].ran > 0
  /\ isConnected
  /\ isPaused
  /\ lastEvent[1].samples # <<>>
  /\ KeyOf(lastEvent[1].samples[Len(lastEvent[1].samples)]) =
       SelectedImuId(selectedIMU)

\* C15: pausing or resuming changes none of the four chart buffers, so a
\* pause followed by a resume with no notification in between leaves them
\* as they were; and a change of the settings appends no point.
C15Step ==
  /\ isPaused' # isPaused => UNCHANGED chartVars
  /\ settings' # settings => lastPush' = None

C15_PauseResumeKeepsCharts == [][C15Step]_vars

(***************************************************************************)
(* Properties of the page's connection flag and of the hook's state.       *)
(***************************************************************************)
\* C16: on the page that shares its useBLE instance with the dialog,
\* isConnected implies that the hook's connectedDevice is not null.
C16_ConnectedHasDevice == isConnected => connectedDevice # NullDevice

\* C17: validUUIDFound implies that connectedDevice is not null and that
\* notifyCharRef holds the characteristic the listener is attached to.
C17_ValidMeansNotifying ==
  validUUIDFound =>
    /\ connectedDevice # NullDevice
    /\ notifyCharRef # None
    /\ registered # None
    /\ registered[1].ch = notifyCharRef[1]
    /\ registered[1] \in charListeners

\* The notification events with a value that the hook handled since the
\* most recent connect() call.
WithValue == SelectSeq(received, LAMBDA e : e.dv # NoValue)

\* C18: packetsReceived is the number of notification events with a value
\* handled since the most recent connect() call, and lastPacketHex is the
\* hex text of the last of them, null when there was none.
C18_PacketsCounted ==
  /\ packetsReceived = Len(WithValue)
  /\ lastPacketHex = IF WithValue = <<>> THEN None
                     ELSE Some(HexTextOf[WithValue[Len(WithValue)].dv[1]])

\* The samples a handled event yielded.
Yield(e) == IF e.dv = NoValue THEN <<>> ELSE SamplesOf[e.dv[1]]

\* C19: latestIMUData is null exactly when latestByIMU is empty; when it is
\* not null it is the last record of the most recent notification, since
\* the most recent connect() call, that yielded a record, and it is the
\* entry of latestByIMU under its own imuId.
C19_LatestIsLastRecord ==
  /\ (latestIMUData = None) <=> (DOMAIN latestByIMU = {})
  /\ latestIMUData # None =>
       LET r == latestIMUData[1]
       IN /\ KeyOf(r) \in DOMAIN latestByIMU
          /\ latestByIMU[KeyOf(r)] = r
          /\ \E j \in 1..Len(received) :
               /\ Yield(received[j]) # <<>>
               /\ \A m \in (j + 1)..Len(received) : Yield(received[m]) = <<>>
               /\ r = Yield(received[j])[Len(Yield(received[j]))]

\* C19 witness: after a connect() call a notification yielded two different
\* records and a later event yielded none; latestIMUData is the second
\* record of the earlier notification.
C19_Witness ==
  /\ Len(calls) >= 1
  /\ Len(received) = 2
  /\ Len(Yield(received[1])) = 2
  /\ Yield(received[1])[1] # Yield(received[1])[2]
  /\ Yield(received[2]) = <<>>
  /\ latestIMUData = Some(Yield(received[1])[2])

\* C20: every key of latestByIMU is an integer between 0 and 5.
C20_KeysAreImuIds == \A id \in DOMAIN latestByIMU : id \in 0..5

====
